---- MODULE Spec2Model ----
(***************************************************************************)
(* form_exer: a small HTTP server built on the rweb framework and the      *)
(* element HTML builder.  The model covers the page composition layer      *)
(* (Page, Banner, Footer, ContactForm, CatAdoptionHero, Home, ContactPage) *)
(* and the route handlers registered in main(), run as concurrent handler  *)
(* invocations over the one shared file uploaded_file.txt.                 *)
(*                                                                         *)
(* Markup is a sequence of tokens (open tag, void tag, text, close tag), a *)
(* Go string built by formatting is a sequence of chunks, and a file is a  *)
(* sequence of bytes.                                                      *)
(***************************************************************************)
EXTENDS Integers, Sequences, FiniteSets, TLC

\* ------------------------------------------------------------------ bounds

\* Longest uploaded payload, in bytes.
MaxLen == 2

\* Handler invocations the framework runs at the same time.
NumInv == 2

Invocations == 1..NumInv

\* ------------------------------------------------------------ element tokens

Tok(k, tag, attrs, s) == [k |-> k, tag |-> tag, attrs |-> attrs, s |-> s]

\* <tag a="v" ...>, written when the element is created (b.Body(...), b.Div(...)).
Open(tag, attrs) == Tok("open", tag, attrs, "")

\* An element with no closing tag (input, img, hr), written when created.
Void(tag, attrs) == Tok("void", tag, attrs, "")

\* One string written as it is: element's T() does not escape.
Text(s) == Tok("text", "", <<>>, s)

\* </tag>, written by R() after its arguments, and by T() after its texts.
Close(tag) == Tok("close", tag, <<>>, "")

\* element.NewBuilder(): an empty builder of the caller's own.
NewBuilder == <<>>

\* .T(texts...): every text in order, then the closing tag.
T(b, tag, texts) ==
    b \o [i \in 1..Len(texts) |-> Text(texts[i])] \o <<Close(tag)>>

\* An element with attributes and text only: b.H1(attrs...).T(texts...).
Elem(b, tag, attrs, texts) == T(Append(b, Open(tag, attrs)), tag, texts)

\* ------------------------------------------------------------ shared.Page

Page(title) == [Title |-> title]

\* Banner with a fault: a banner that loses the title.
BannerNoTitle(p) == [comp |-> "Banner", Title |-> ""]

\* func (p Page) Banner() Banner
Banner(p) == [comp |-> "Banner", Title |-> p.Title]

\* func (p Page) Footer() Footer
Footer(p) == [comp |-> "Footer"]

ContactForm == [comp |-> "ContactForm"]

CatAdoptionHero == [comp |-> "CatAdoptionHero"]

\* ------------------------------------------------------- component renders

HeaderStyle == <<"style", "background-color:#2c3e50; color:white; padding:20px">>

\* func (b Banner) Render(builder *element.Builder) any
BannerRender(bn, b) ==
    Append(Elem(Append(b, Open("header", HeaderStyle)), "h1", <<>>, <<bn.Title>>),
           Close("header"))

\* FooterRender with a fault: the footer starts from an empty builder and
\* drops what b held.
FooterRenderReset(f, b) ==
    Append(Elem(Append(NewBuilder, Open("div", <<"style", "background-color:lightgray">>)),
                "p", <<"style", "color:gray">>, <<"Copyright &copy; 2025">>),
           Close("div"))

\* func (f Footer) Render(b *element.Builder) any
FooterRender(f, b) ==
    Append(Elem(Append(b, Open("div", <<"style", "background-color:lightgray">>)),
                "p", <<"style", "color:gray">>, <<"Copyright &copy; 2025">>),
           Close("div"))

\* ContactFormRender with a fault: the textarea is named "msg".
ContactFormRenderMsg(cf, b) ==
    b \o << Open("form", <<"action", "/contact", "method", "POST">>),
            Void("input", <<"type", "text", "name", "name", "placeholder", "Name">>),
            Void("input", <<"type", "email", "name", "email", "placeholder", "Email">>),
            Open("textarea", <<"name", "msg", "placeholder", "Message">>),
            Close("textarea"),
            Open("button", <<"type", "submit">>), Text("Send"), Close("button"),
            Close("form") >>

\* func (cf ContactForm) Render(b *element.Builder) (dontCare any)
ContactFormRender(cf, b) ==
    LET b1 == Append(b, Open("form", <<"action", "/contact", "method", "POST">>))
        b2 == Append(b1, Void("input", <<"type", "text", "name", "name",
                                         "placeholder", "Name">>))
        b3 == Append(b2, Void("input", <<"type", "email", "name", "email",
                                         "placeholder", "Email">>))
        b4 == Append(Append(b3, Open("textarea", <<"name", "message",
                                                   "placeholder", "Message">>)),
                     Close("textarea"))
        b5 == Elem(b4, "button", <<"type", "submit">>, <<"Send">>)
    IN  Append(b5, Close("form"))

CardStyle ==
    <<"style", "background:white; border-radius:10px; box-shadow:0 4px 6px rgba(0,0,0,0.1); padding:20px">>

ImgStyle == "width:100%; border-radius:8px; margin-bottom:15px"

ButtonStyle ==
    <<"style", "background-color:#e67e22; color:white; border:none; padding:10px 20px; border-radius:5px; cursor:pointer; font-size:1em; margin-top:10px">>

\* One cat card: img, h3, p, button inside a div.
Card(b, src, alt, name, desc, btn) ==
    LET b1 == Append(b, Open("div", CardStyle))
        b2 == Append(b1, Void("img", <<"src", src, "alt", alt, "style", ImgStyle>>))
        b3 == Elem(b2, "h3", <<"style", "color:#2c3e50; margin:10px 0">>, <<name>>)
        b4 == Elem(b3, "p", <<"style", "color:#666; line-height:1.6">>, <<desc>>)
        b5 == Elem(b4, "button", ButtonStyle, <<btn>>)
    IN  Append(b5, Close("div"))

\* func (c CatAdoptionHero) Render(b *element.Builder) (dontCare any)
CatAdoptionHeroRender(c, b) ==
    LET b1 == Append(b, Open("div",
                  <<"style", "max-width:1200px; margin:0 auto; padding:40px 20px">>))
        b2 == Elem(b1, "h2",
                  <<"style", "text-align:center; color:#2c3e50; font-size:2.5em; margin-bottom:20px">>,
                  <<"Find Your Purr-fect Companion">>)
        b3 == Elem(b2, "p",
                  <<"style", "text-align:center; color:#555; font-size:1.2em; margin-bottom:40px">>,
                  <<"Give a loving cat a forever home. Browse our adoptable cats and kittens waiting to meet you!">>)
        b4 == Append(b3, Open("div",
                  <<"style", "display:grid; grid-template-columns:repeat(auto-fit, minmax(300px, 1fr)); gap:30px; margin-top:40px">>))
        b5 == Card(b4, "https://placekitten.com/400/300", "Orange tabby cat", "Whiskers",
                  "A friendly orange tabby who loves to play and cuddle. Great with kids and other pets. Age: 2 years.",
                  "Meet Whiskers")
        b6 == Card(b5, "https://placekitten.com/401/300", "Gray and white cat", "Luna",
                  "A calm and gentle gray beauty who enjoys quiet afternoons. Perfect for apartment living. Age: 4 years.",
                  "Meet Luna")
        b7 == Card(b6, "https://placekitten.com/402/300", "Black cat", "Shadow",
                  "A playful black kitten full of energy and curiosity. Loves interactive toys and exploring. Age: 8 months.",
                  "Meet Shadow")
    IN  Append(Append(b7, Close("div")), Close("div"))

\* comp.Render(b), dispatched on the component's type (element.Component).
ComponentRender(comp, b) ==
    CASE comp.comp = "Banner"          -> BannerRender(comp, b)
      [] comp.comp = "Footer"          -> FooterRender(comp, b)
      [] comp.comp = "ContactForm"     -> ContactFormRender(comp, b)
      [] comp.comp = "CatAdoptionHero" -> CatAdoptionHeroRender(comp, b)

\* ------------------------------------------------------------- page values

\* type Home struct { shared.Page; Heading string }, and ContactPage alike.
PageValue(title, heading) == [Page |-> Page(title), Heading |-> heading]

\* var HomePage = Home{Page: shared.Page{Title: "My Website"}, Heading: "Home Page"}
HomePageValue == PageValue("My Website", "Home Page")

\* var Contact = ContactPage{Page: shared.Page{Title: "Contact Us"}, Heading: "Get in Touch"}
ContactValue == PageValue("Contact Us", "Get in Touch")

NoPage == PageValue("", "")

BodyStyle == <<"style", "background-color:tan">>

HeadingStyle == <<"style", "color:maroon;background-color:#dfc673">>

\* HomeComps with a fault: the footer is passed first.
HomeCompsFooterFirst(h) == <<Footer(h.Page), Banner(h.Page), CatAdoptionHero>>

\* The arguments of element.RenderComponents in Home.Render, in order.
HomeComps(h) == <<Banner(h.Page), CatAdoptionHero, Footer(h.Page)>>

\* The arguments of element.RenderComponents in ContactPage.Render, in order.
ContactComps(c) == <<Banner(c.Page), ContactForm, Footer(c.Page)>>

\* HeadingText with a fault: the page h1 shows the banner's title.
HeadingTextTitle(p) == <<p.Page.Title>>

\* The texts of the page h1: .T(h.Heading), .T(c.Heading).
HeadingText(p) == <<p.Heading>>

RECURSIVE RenderEach(_, _)
\* element.RenderComponents(b, comps...) from its call to its return: every
\* component's Render(b), in the order of the arguments.
RenderEach(b, comps) ==
    IF comps = <<>> THEN b
    ELSE RenderEach(ComponentRender(Head(comps), b), Tail(comps))

\* Home.Render() from its call to its return, on a builder of its own.
HomeRender(h) ==
    LET b1 == Append(NewBuilder, Open("body", BodyStyle))
        b2 == RenderEach(b1, HomeComps(h))
        b3 == Elem(b2, "h1", HeadingStyle, HeadingText(h))
    IN  Append(b3, Close("body"))

\* ContactPage.Render() from its call to its return, on a builder of its own.
ContactPageRender(c) ==
    LET b1 == Append(NewBuilder, Open("body", BodyStyle))
        b2 == RenderEach(b1, ContactComps(c))
        b3 == Elem(b2, "h1", HeadingStyle, HeadingText(c))
    IN  Append(b3, Close("body"))

\* --------------------------------------------------------------- requests

Nil == "nil"

Bytes == {"a", "b"}

Payloads == UNION {[1..n -> Bytes] : n \in 0..MaxLen}

\* The forms over `fields`: any subset of the fields posted, each with one of
\* its candidate values.
Forms(fields, vals) ==
    {f \in UNION {[S -> UNION {vals[k] : k \in fields}] : S \in SUBSET fields} :
        \A k \in DOMAIN f : f[k] \in vals[k]}

NoForm == [k \in {} |-> ""]

Request(method, path, form, hasFile, file) ==
    [method |-> method, path |-> path, form |-> form, hasFile |-> hasFile, file |-> file]

NoRequest == Request("", <<>>, NoForm, FALSE, <<>>)

PostFormFields == {"dept", "name"}

PostFormVals == [dept |-> {"eng", "support"}, name |-> {"Sue"}]

FormIds == {"42", "123", "roh"}

ContactFields == {"name", "email", "message"}

ContactVals == [name |-> {"Jane"}, email |-> {"j@x.com"}, message |-> {"<b>Hi</b>"}]

\* GET /, GET /contact, and GET /roh, whose route main() no longer registers.
PageRequests ==
    {Request("GET", <<>>, NoForm, FALSE, <<>>),
     Request("GET", <<"contact">>, NoForm, FALSE, <<>>),
     Request("GET", <<"roh">>, NoForm, FALSE, <<>>)}

\* POST /post-form-data/<id> and POST /contact with a form.
FormRequests ==
    {Request("POST", <<"post-form-data", id>>, f, FALSE, <<>>) :
        id \in FormIds, f \in Forms(PostFormFields, PostFormVals)}
    \cup {Request("POST", <<"contact">>, f, FALSE, <<>>) :
            f \in Forms(ContactFields, ContactVals)}

\* POST /upload, with a file part of any payload or with none.
UploadRequests ==
    {Request("POST", <<"upload">>, [vehicle |-> "car"], TRUE, p) : p \in Payloads}
    \cup {Request("POST", <<"upload">>, [vehicle |-> "car"], FALSE, <<>>)}

Requests == PageRequests \cup FormRequests \cup UploadRequests

\* ctx.Request().FormValue(name): the posted value, "" for a field not posted.
FormValue(req, name) == IF name \in DOMAIN req.form THEN req.form[name] ELSE ""

\* ----------------------------------------------------------------- router

\* A pattern segment that captures a path parameter, by the parameter's name.
ParamSegs == [form_id |-> ":form_id"]

IsParam(seg) == \E n \in DOMAIN ParamSegs : ParamSegs[n] = seg

Route(method, pattern, handler) ==
    [method |-> method, pattern |-> pattern, handler |-> handler]

\* Routes with a fault: the handlers of the two GET routes are exchanged.
RoutesSwapped ==
    << Route("GET", <<>>, "contactPage"),
       Route("GET", <<"contact">>, "home"),
       Route("POST", <<"post-form-data", ":form_id">>, "postFormData"),
       Route("POST", <<"contact">>, "postContact"),
       Route("POST", <<"upload">>, "upload") >>

\* s.Get / s.Post registrations of main(), in order.
Routes ==
    << Route("GET", <<>>, "home"),
       Route("GET", <<"contact">>, "contactPage"),
       Route("POST", <<"post-form-data", ":form_id">>, "postFormData"),
       Route("POST", <<"contact">>, "postContact"),
       Route("POST", <<"upload">>, "upload") >>

Matches(rt, req) ==
    /\ rt.method = req.method
    /\ Len(rt.pattern) = Len(req.path)
    /\ \A i \in 1..Len(rt.pattern) :
          IsParam(rt.pattern[i]) \/ rt.pattern[i] = req.path[i]

\* The route a request is dispatched to; NoRoute when none is registered for it.
NoRoute == Route("", <<>>, "notFound")

Lookup(req) ==
    IF \E i \in 1..Len(Routes) : Matches(Routes[i], req)
    THEN Routes[CHOOSE i \in 1..Len(Routes) :
                   /\ Matches(Routes[i], req)
                   /\ \A j \in 1..(i - 1) : ~Matches(Routes[j], req)]
    ELSE NoRoute

\* PathParam with a fault: a fixed form_id, whatever the request's path.
PathParamFixed(rt, req, name) == "123"

\* ctx.Request().PathParam(name): the path segment under the pattern's :name.
PathParam(rt, req, name) ==
    IF \E i \in 1..Len(rt.pattern) : rt.pattern[i] = ParamSegs[name]
    THEN req.path[CHOOSE i \in 1..Len(rt.pattern) : rt.pattern[i] = ParamSegs[name]]
    ELSE ""

\* ------------------------------------------------------------- middleware

\* strings.Contains(reqPath, "roh"): of the path segments requests are made
\* of here, "roh" is the only one that contains it.
ContainsRoh(path) == \E i \in 1..Len(path) : path[i] = "roh"

\* Whether a middleware calls ctx.Next() on a request.  rweb.RequestInfo and
\* the logging middlewares always do; the auth function does when the path
\* contains "roh", and otherwise sets the status to 401 and returns.
CallsNext(m, q) ==
    CASE m = "RequestInfo" -> TRUE
      [] m = "midWare1"    -> TRUE
      [] m = "midWare2"    -> TRUE
      [] m = "midWare3"    -> TRUE
      [] m = "auth"        -> ContainsRoh(q.path)

\* Middlewares with a fault: the auth function is registered too.
MiddlewaresWithAuth == <<"RequestInfo", "auth">>

\* The s.Use registrations of main(), in order.
Middlewares == <<"RequestInfo">>

\* The s.Use registrations of the earlier main(), in order.
MiddlewaresEarlier == <<"RequestInfo", "midWare2", "midWare3">>

\* The middleware chains a request can meet.
Registered == {Middlewares, MiddlewaresEarlier}

\* Some middleware of the chain returns without calling ctx.Next().
ChainStops(chain, q) == \E i \in 1..Len(chain) : ~CallsNext(chain[i], q)

\* ------------------------------------------------------------- formatting

RECURSIVE Sprintf(_, _)
\* fmt.Sprintf over a format cut at its verbs: every "%s" is replaced by the
\* next argument, every other piece is copied.
Sprintf(format, args) ==
    IF format = <<>> THEN <<>>
    ELSE IF Head(format) = "%s"
         THEN IF args = <<>>
              THEN <<"%!s(MISSING)">> \o Sprintf(Tail(format), args)
              ELSE <<Head(args)>> \o Sprintf(Tail(format), Tail(args))
         ELSE <<Head(format)>> \o Sprintf(Tail(format), args)

PostFormFormat == <<"Posted - form_id: ", "%s", ", dept: ", "%s", ", name: ", "%s">>

ContactFormat == <<"Posted - name: ", "%s", ", email: ", "%s", ", message: ", "%s">>

\* outStr of the /post-form-data/:form_id handler.
PostFormOut(formId, dept, name) == Sprintf(PostFormFormat, <<formId, dept, name>>)

\* ContactOut with a fault: the message is left out.
ContactOutNoMessage(name, email, message) == Sprintf(ContactFormat, <<name, email, "">>)

\* outStr of the POST /contact handler.
ContactOut(name, email, message) == Sprintf(ContactFormat, <<name, email, message>>)

\* The builder of the POST /contact handler: body, h1 Welcome, hr, p outStr.
ContactReply(outStr) ==
    LET b1 == Append(NewBuilder, Open("body", <<"style", "background-color:darkgreen">>))
        b2 == Elem(b1, "h1", HeadingStyle, <<"Welcome">>)
        b3 == Append(b2, Void("hr", <<>>))
        b4 == Elem(b3, "p", <<>>, outStr)
    IN  Append(b4, Close("body"))

\* ctx.WriteString(s): the chunks of s as the body.
TextBody(s) == [i \in 1..Len(s) |-> Text(s[i])]

\* ------------------------------------------------------------------- files

\* OpenTrunc with a fault: the file is opened without O_TRUNC and keeps its
\* bytes.
OpenKeep(d) == [exists |-> TRUE, data |-> d.data]

\* The file after it is opened O_WRONLY|O_CREATE|O_TRUNC: it exists and is
\* empty.
OpenTrunc(d) == [exists |-> TRUE, data |-> <<>>]

\* The bytes of a file after data is written at offset 0 of its content.
WriteAt0(content, data) ==
    IF Len(data) >= Len(content) THEN data
    ELSE data \o SubSeq(content, Len(data) + 1, Len(content))

\* ------------------------------------------------------------------ state

VARIABLES
    HomePage,   \* pages.HomePage, the package-level Home instance
    Contact,    \* pages.Contact, the package-level ContactPage instance
    disk,       \* uploaded_file.txt: whether it exists, and its bytes
    pc,         \* per invocation: the statement its handler is at
    req,        \* per invocation: the request it serves
    route,      \* per invocation: the route the request was dispatched to
    loc,        \* per invocation: the handler's local variables
    resp,       \* per invocation: the response written so far
    ret,        \* per invocation: the error value the handler returned
    envErr,     \* per invocation: the errors its library calls returned, in order
    acc         \* per invocation: the shared objects it has read and written

vars == <<HomePage, Contact, disk, pc, req, route, loc, resp, ret, envErr, acc>>

\* The objects more than one invocation can reach.
SharedObjects == {"HomePage", "Contact", "uploaded_file.txt"}

NoLocals ==
    [recv   |-> NoPage,    \* the receiver of Render, a copy of the page value
     kind   |-> "",        \* the receiver's type
     b      |-> <<>>,      \* the contents of the builder b
     hasB   |-> FALSE,     \* whether b was created
     comps  |-> <<>>,      \* the components passed to RenderComponents
     i      |-> 0,         \* the component RenderComponents is at
     out    |-> <<>>,      \* the string Render returned
     outStr |-> <<>>,      \* outStr
     file   |-> "none",    \* the uploaded file's handle: none, open, closed
     closes |-> 0,         \* calls of file.Close()
     data   |-> <<>>,      \* data
     fd     |-> "none",    \* os.WriteFile's handle on uploaded_file.txt
     was    |-> <<>>,      \* history: the file's bytes when os.WriteFile opened it
     err    |-> Nil]       \* err

NoResponse == [contentType |-> "", body |-> <<>>, written |-> FALSE, status |-> 200]

NoAccess == [reads |-> {}, writes |-> {}]

\* Everything but the page instances, as the process starts.
InitRest ==
    /\ disk = [exists |-> FALSE, data |-> <<>>]
    /\ pc = [r \in Invocations |-> "idle"]
    /\ req = [r \in Invocations |-> NoRequest]
    /\ route = [r \in Invocations |-> NoRoute]
    /\ loc = [r \in Invocations |-> NoLocals]
    /\ resp = [r \in Invocations |-> NoResponse]
    /\ ret = [r \in Invocations |-> Nil]
    /\ envErr = [r \in Invocations |-> <<>>]
    /\ acc = [r \in Invocations |-> NoAccess]

Init ==
    /\ HomePage = HomePageValue
    /\ Contact = ContactValue
    /\ InitRest

\* The first statement of each handler.
Entry(handler) ==
    CASE handler = "home"         -> "setHeader"
      [] handler = "contactPage"  -> "setHeader"
      [] handler = "postFormData" -> "postFormData"
      [] handler = "postContact"  -> "postContact"
      [] handler = "upload"       -> "getFormFile"
      [] OTHER                    -> "notFound"

\* ---------------------------------------------------------------- framework

\* The framework takes a request of S and runs it, in an invocation of its
\* own, through the registered middlewares to the handler of its route; a
\* middleware that does not call ctx.Next() ends the request with status 401.
DispatchFrom(r, S) ==
    /\ pc[r] = "idle"
    /\ \E q \in S, chain \in Registered :
          /\ req' = [req EXCEPT ![r] = q]
          /\ route' = [route EXCEPT ![r] = Lookup(q)]
          /\ IF ChainStops(chain, q)
             THEN /\ pc' = [pc EXCEPT ![r] = "stopped"]
                  /\ resp' = [resp EXCEPT ![r] = [NoResponse EXCEPT !.status = 401]]
             ELSE /\ pc' = [pc EXCEPT ![r] = Entry(Lookup(q).handler)]
                  /\ resp' = [resp EXCEPT ![r] = NoResponse]
    /\ loc' = [loc EXCEPT ![r] = NoLocals]
    /\ ret' = [ret EXCEPT ![r] = Nil]
    /\ envErr' = [envErr EXCEPT ![r] = <<>>]
    /\ acc' = [acc EXCEPT ![r] = NoAccess]
    /\ UNCHANGED <<HomePage, Contact, disk>>

Dispatch(r) == DispatchFrom(r, Requests)

\* No route is registered for the request: the framework answers 404.
NotFound(r) ==
    /\ pc[r] = "notFound"
    /\ resp' = [resp EXCEPT ![r].status = 404]
    /\ pc' = [pc EXCEPT ![r] = "done"]
    /\ UNCHANGED <<HomePage, Contact, disk, req, route, loc, ret, envErr, acc>>

\* The handler has returned, or a middleware has ended the request: the
\* framework sends the response and the invocation is over.
Respond(r) ==
    /\ pc[r] \in {"done", "stopped"}
    /\ pc' = [pc EXCEPT ![r] = "idle"]
    /\ req' = [req EXCEPT ![r] = NoRequest]
    /\ route' = [route EXCEPT ![r] = NoRoute]
    /\ loc' = [loc EXCEPT ![r] = NoLocals]
    /\ resp' = [resp EXCEPT ![r] = NoResponse]
    /\ ret' = [ret EXCEPT ![r] = Nil]
    /\ envErr' = [envErr EXCEPT ![r] = <<>>]
    /\ acc' = [acc EXCEPT ![r] = NoAccess]
    /\ UNCHANGED <<HomePage, Contact, disk>>

\* ------------------------------------------------------- GET / and /contact

\* NextPage with a fault: rendering clears the instance's heading.
NextPageCleared(p) == [p EXCEPT !.Heading = ""]

\* NextPage with a fault: rendering overwrites the instance's title with its
\* heading.
NextPageRetitled(p) == [p EXCEPT !.Page = Page(p.Heading)]

\* A page instance after one of its Render calls: Render has a value
\* receiver and assigns to no field.
NextPage(p) == p

\* ctx.Response().SetHeader("Content-Type", "text/html; charset=utf-8"), then
\* the call of pages.HomePage.Render() or pages.Contact.Render(): the receiver
\* is a copy of the package-level value.
SetHeader(r) ==
    /\ pc[r] = "setHeader"
    /\ resp' = [resp EXCEPT ![r].contentType = "text/html; charset=utf-8"]
    /\ IF route[r].handler = "home"
       THEN /\ loc' = [loc EXCEPT ![r].recv = HomePage, ![r].kind = "Home"]
            /\ acc' = [acc EXCEPT ![r].reads = @ \cup {"HomePage"}]
       ELSE /\ loc' = [loc EXCEPT ![r].recv = Contact, ![r].kind = "ContactPage"]
            /\ acc' = [acc EXCEPT ![r].reads = @ \cup {"Contact"}]
    /\ pc' = [pc EXCEPT ![r] = "newBuilder"]
    /\ UNCHANGED <<HomePage, Contact, disk, req, route, ret, envErr>>

\* RenderNewBuilder with a fault: Render takes over the builder another
\* running Render call is building into, with what it holds, when there is one.
RenderNewBuilderShared(r) ==
    /\ pc[r] = "newBuilder"
    /\ loc' = [loc EXCEPT ![r].b = IF \E q \in Invocations \ {r} : loc[q].hasB
                                   THEN loc[CHOOSE q \in Invocations \ {r} : loc[q].hasB].b
                                   ELSE NewBuilder,
                          ![r].hasB = TRUE]
    /\ pc' = [pc EXCEPT ![r] = "body"]
    /\ UNCHANGED <<HomePage, Contact, disk, req, route, resp, ret, envErr, acc>>

\* b := element.NewBuilder()
RenderNewBuilder(r) ==
    /\ pc[r] = "newBuilder"
    /\ loc' = [loc EXCEPT ![r].b = NewBuilder, ![r].hasB = TRUE]
    /\ pc' = [pc EXCEPT ![r] = "body"]
    /\ UNCHANGED <<HomePage, Contact, disk, req, route, resp, ret, envErr, acc>>

\* b.Body("style", "background-color:tan") writes the opening tag; then the
\* arguments of RenderComponents are evaluated: Banner(), the body content,
\* Footer().
RenderBody(r) ==
    /\ pc[r] = "body"
    /\ loc' = [loc EXCEPT ![r].b = Append(loc[r].b, Open("body", BodyStyle)),
                          ![r].comps = IF loc[r].kind = "Home"
                                       THEN HomeComps(loc[r].recv)
                                       ELSE ContactComps(loc[r].recv),
                          ![r].i = 1]
    /\ pc' = [pc EXCEPT ![r] = "components"]
    /\ UNCHANGED <<HomePage, Contact, disk, req, route, resp, ret, envErr, acc>>

\* element.RenderComponents(b, comps...): one component's Render(b) per step.
RenderComponents(r) ==
    /\ pc[r] = "components"
    /\ loc[r].i <= Len(loc[r].comps)
    /\ loc' = [loc EXCEPT ![r].b = ComponentRender(loc[r].comps[loc[r].i], loc[r].b),
                          ![r].i = loc[r].i + 1]
    /\ pc' = [pc EXCEPT ![r] = IF loc[r].i = Len(loc[r].comps)
                               THEN "heading" ELSE "components"]
    /\ UNCHANGED <<HomePage, Contact, disk, req, route, resp, ret, envErr, acc>>

\* b.H1("style", ...).T(h.Heading), the last argument of Body's R().
RenderHeading(r) ==
    /\ pc[r] = "heading"
    /\ loc' = [loc EXCEPT ![r].b = Elem(loc[r].b, "h1", HeadingStyle,
                                         HeadingText(loc[r].recv))]
    /\ pc' = [pc EXCEPT ![r] = "return"]
    /\ UNCHANGED <<HomePage, Contact, disk, req, route, resp, ret, envErr, acc>>

\* R() closes the body; return b.String().  The package-level instance is
\* what the call left of it.
RenderReturn(r) ==
    /\ pc[r] = "return"
    /\ loc' = [loc EXCEPT ![r].b = Append(loc[r].b, Close("body")),
                          ![r].out = Append(loc[r].b, Close("body"))]
    /\ IF loc[r].kind = "Home"
       THEN HomePage' = NextPage(HomePage) /\ UNCHANGED Contact
       ELSE Contact' = NextPage(Contact) /\ UNCHANGED HomePage
    /\ pc' = [pc EXCEPT ![r] = "writeHTML"]
    /\ UNCHANGED <<disk, req, route, resp, ret, envErr, acc>>

\* return ctx.WriteHTML(html): the content type and the body; it returns nil.
WriteHTML(r) ==
    /\ pc[r] = "writeHTML"
    /\ resp' = [resp EXCEPT ![r].contentType = "text/html; charset=utf-8",
                            ![r].body = loc[r].out,
                            ![r].written = TRUE]
    /\ ret' = [ret EXCEPT ![r] = Nil]
    /\ pc' = [pc EXCEPT ![r] = "done"]
    /\ UNCHANGED <<HomePage, Contact, disk, req, route, loc, envErr, acc>>

\* ------------------------------------------- POST /post-form-data/:form_id

\* dept, formId, name are read, outStr is formatted and written as plain text.
PostFormData(r) ==
    /\ pc[r] = "postFormData"
    /\ LET dept   == FormValue(req[r], "dept")
           formId == PathParam(route[r], req[r], "form_id")
           name   == FormValue(req[r], "name")
           outStr == PostFormOut(formId, dept, name)
       IN  /\ loc' = [loc EXCEPT ![r].outStr = outStr]
           /\ resp' = [resp EXCEPT ![r].body = TextBody(outStr),
                                   ![r].written = TRUE]
    /\ ret' = [ret EXCEPT ![r] = Nil]
    /\ pc' = [pc EXCEPT ![r] = "done"]
    /\ UNCHANGED <<HomePage, Contact, disk, req, route, envErr, acc>>

\* --------------------------------------------------------- POST /contact

\* The form fields the POST /contact handler reads, each by its name.
ContactRead(q) ==
    [name    |-> FormValue(q, "name"),
     email   |-> FormValue(q, "email"),
     message |-> FormValue(q, "message")]

\* name, email, message are read, outStr is formatted and put into the
\* paragraph of a builder of the handler's own.
PostContact(r) ==
    /\ pc[r] = "postContact"
    /\ LET in     == ContactRead(req[r])
           outStr == ContactOut(in.name, in.email, in.message)
       IN  loc' = [loc EXCEPT ![r].outStr = outStr,
                              ![r].b = ContactReply(outStr),
                              ![r].hasB = TRUE,
                              ![r].out = ContactReply(outStr)]
    /\ pc' = [pc EXCEPT ![r] = "writeHTML"]
    /\ UNCHANGED <<HomePage, Contact, disk, req, route, resp, ret, envErr, acc>>

\* ------------------------------------------------------------ POST /upload

\* The errors the library calls of the handler can return.
GetFormFileErrors == {"http: no such file"}

ReadErrors == {"unexpected EOF"}

OpenErrors == {"open uploaded_file.txt: permission denied"}

WriteErrors == {"write uploaded_file.txt: no space left on device"}

\* ReturnErr with a fault: the error is wrapped before it is returned.
ReturnErrWrapped(err) == IF err = Nil THEN Nil ELSE "upload failed"

\* `return err`: the handler returns the error value it was given.
ReturnErr(err) == err

\* DeferredClose with a fault: file.Close() is called in the handler's body
\* and once more by the defer.
DeferredCloseTwice(l) == [l EXCEPT !.file = "closed", !.closes = l.closes + 2]

\* `defer file.Close()`: the locals after the deferred call has run.
DeferredClose(l) == [l EXCEPT !.file = "closed", !.closes = l.closes + 1]

\* name := req.FormValue("vehicle"), printed; file, _, err := req.GetFormFile("file").
\* Without a file part the call fails and the handler returns that error; with
\* one, the handle is open and `defer file.Close()` is registered.
UploadGetFormFile(r) ==
    /\ pc[r] = "getFormFile"
    /\ IF req[r].hasFile
       THEN /\ loc' = [loc EXCEPT ![r].file = "open", ![r].err = Nil]
            /\ pc' = [pc EXCEPT ![r] = "readAll"]
            /\ UNCHANGED <<ret, envErr>>
       ELSE \E e \in GetFormFileErrors :
            /\ loc' = [loc EXCEPT ![r].err = e]
            /\ envErr' = [envErr EXCEPT ![r] = Append(@, e)]
            /\ ret' = [ret EXCEPT ![r] = ReturnErr(e)]
            /\ pc' = [pc EXCEPT ![r] = "done"]
    /\ UNCHANGED <<HomePage, Contact, disk, req, route, resp, acc>>

\* UploadReadAll with a fault: the bytes are streamed to uploaded_file.txt
\* while they are read, so a failed read leaves the bytes read so far in it.
UploadReadAllStreaming(r) ==
    /\ pc[r] = "readAll"
    /\ \/ /\ loc' = [loc EXCEPT ![r].data = req[r].file, ![r].err = Nil]
          /\ pc' = [pc EXCEPT ![r] = "openOut"]
          /\ UNCHANGED <<ret, envErr, disk>>
       \/ \E e \in ReadErrors, n \in 0..Len(req[r].file) :
          /\ loc' = [loc EXCEPT ![r] = DeferredClose(
                        [@ EXCEPT !.data = SubSeq(req[r].file, 1, n), !.err = e])]
          /\ disk' = [exists |-> TRUE, data |-> SubSeq(req[r].file, 1, n)]
          /\ envErr' = [envErr EXCEPT ![r] = Append(@, e)]
          /\ ret' = [ret EXCEPT ![r] = ReturnErr(e)]
          /\ pc' = [pc EXCEPT ![r] = "done"]
    /\ UNCHANGED <<HomePage, Contact, req, route, resp, acc>>

\* data, err := io.ReadAll(file): the whole payload, or the bytes read so far
\* and an error, which the handler returns.
UploadReadAll(r) ==
    /\ pc[r] = "readAll"
    /\ \/ /\ loc' = [loc EXCEPT ![r].data = req[r].file, ![r].err = Nil]
          /\ pc' = [pc EXCEPT ![r] = "openOut"]
          /\ UNCHANGED <<ret, envErr>>
       \/ \E e \in ReadErrors, n \in 0..Len(req[r].file) :
          /\ loc' = [loc EXCEPT ![r] = DeferredClose(
                        [@ EXCEPT !.data = SubSeq(req[r].file, 1, n), !.err = e])]
          /\ envErr' = [envErr EXCEPT ![r] = Append(@, e)]
          /\ ret' = [ret EXCEPT ![r] = ReturnErr(e)]
          /\ pc' = [pc EXCEPT ![r] = "done"]
    /\ UNCHANGED <<HomePage, Contact, disk, req, route, resp, acc>>

\* err = os.WriteFile("uploaded_file.txt", data, 0666), its first half: the
\* file is opened O_WRONLY|O_CREATE|O_TRUNC, which creates or empties it, or
\* the open fails, changes nothing, and the handler returns the error.
UploadOpenOut(r) ==
    /\ pc[r] = "openOut"
    /\ \/ /\ disk' = OpenTrunc(disk)
          /\ loc' = [loc EXCEPT ![r].fd = "open", ![r].was = disk.data]
          /\ acc' = [acc EXCEPT ![r].writes = @ \cup {"uploaded_file.txt"}]
          /\ pc' = [pc EXCEPT ![r] = "writeOut"]
          /\ UNCHANGED <<ret, envErr>>
       \/ \E e \in OpenErrors :
          /\ loc' = [loc EXCEPT ![r] = DeferredClose([@ EXCEPT !.err = e])]
          /\ envErr' = [envErr EXCEPT ![r] = Append(@, e)]
          /\ ret' = [ret EXCEPT ![r] = ReturnErr(e)]
          /\ pc' = [pc EXCEPT ![r] = "done"]
          /\ UNCHANGED <<disk, acc>>
    /\ UNCHANGED <<HomePage, Contact, req, route, resp>>

\* os.WriteFile, its second half: data is written at the handle's offset 0 and
\* the handle is closed; a failed write leaves a prefix of data written.  The
\* handler returns the error, or nil.
UploadWriteOut(r) ==
    /\ pc[r] = "writeOut"
    /\ \/ /\ disk' = [disk EXCEPT !.data = WriteAt0(@, loc[r].data)]
          /\ loc' = [loc EXCEPT ![r] = DeferredClose(
                        [@ EXCEPT !.fd = "closed", !.err = Nil])]
          /\ ret' = [ret EXCEPT ![r] = Nil]
          /\ UNCHANGED envErr
       \/ \E e \in WriteErrors, n \in 0..(Len(loc[r].data) - 1) :
          /\ disk' = [disk EXCEPT !.data = WriteAt0(@, SubSeq(loc[r].data, 1, n))]
          /\ loc' = [loc EXCEPT ![r] = DeferredClose(
                        [@ EXCEPT !.fd = "closed", !.err = e])]
          /\ envErr' = [envErr EXCEPT ![r] = Append(@, e)]
          /\ ret' = [ret EXCEPT ![r] = ReturnErr(e)]
    /\ pc' = [pc EXCEPT ![r] = "done"]
    /\ UNCHANGED <<HomePage, Contact, req, route, resp, acc>>

\* ---------------------------------------------------------- specifications

\* The statements of the page handlers and of Render.
PageStep(r) ==
    \/ SetHeader(r)
    \/ RenderNewBuilder(r)
    \/ RenderBody(r)
    \/ RenderComponents(r)
    \/ RenderHeading(r)
    \/ RenderReturn(r)

\* The statements of the two form handlers.
FormStep(r) ==
    \/ PostFormData(r)
    \/ PostContact(r)

\* The statements of the upload handler.
UploadStep(r) ==
    \/ UploadGetFormFile(r)
    \/ UploadReadAll(r)
    \/ UploadOpenOut(r)
    \/ UploadWriteOut(r)

\* The server: every request, handled concurrently.
Next ==
    \E r \in Invocations :
        \/ Dispatch(r)
        \/ NotFound(r)
        \/ PageStep(r)
        \/ FormStep(r)
        \/ WriteHTML(r)
        \/ UploadStep(r)
        \/ Respond(r)

Spec == Init /\ [][Next]_vars

\* Page values for the claims about any page: the two titles and the two
\* headings of the program, in every combination.
Titles == {"My Website", "Contact Us"}

Headings == {"Home Page", "Get in Touch"}

PageValues == {PageValue(t, h) : t \in Titles, h \in Headings}

InitPages ==
    /\ HomePage \in PageValues
    /\ Contact \in PageValues
    /\ InitRest

DispatchPage(r) == DispatchFrom(r, PageRequests)

\* The page routes alone, over any page values.
NextPages ==
    \E r \in Invocations :
        \/ DispatchPage(r)
        \/ NotFound(r)
        \/ PageStep(r)
        \/ WriteHTML(r)
        \/ Respond(r)

SpecPages == InitPages /\ [][NextPages]_vars

DispatchForm(r) == DispatchFrom(r, FormRequests)

\* The two form routes alone.
NextForms ==
    \E r \in Invocations :
        \/ DispatchForm(r)
        \/ FormStep(r)
        \/ WriteHTML(r)
        \/ Respond(r)

SpecForms == Init /\ [][NextForms]_vars

AllIdle == \A r \in Invocations : pc[r] = "idle"

DispatchAlone(r) == AllIdle /\ DispatchFrom(r, Requests)

\* The server when requests arrive one after another: a request is taken
\* only when no handler is running.
NextSeq ==
    \E r \in Invocations :
        \/ DispatchAlone(r)
        \/ NotFound(r)
        \/ PageStep(r)
        \/ FormStep(r)
        \/ WriteHTML(r)
        \/ UploadStep(r)
        \/ Respond(r)

SpecSeq == Init /\ [][NextSeq]_vars

\* Markup a builder can hold when it is passed to a component's Render.
PriorTokens == {Open("div", <<>>), Text("x")}

Builders == UNION {[1..n -> PriorTokens] : n \in 0..MaxLen}

\* The renderable components: banners of either title, the footer, the
\* contact form, the cat adoption hero.
Components ==
    {Banner(Page(t)) : t \in Titles} \cup {Footer(Page("")), ContactForm, CatAdoptionHero}

CompLists == UNION {[1..n -> Components] : n \in 1..MaxLen}

\* element.RenderComponents is about to render any components into a
\* builder of any content; nothing else is running.
InitComponents ==
    /\ HomePage = HomePageValue
    /\ Contact = ContactValue
    /\ disk = [exists |-> FALSE, data |-> <<>>]
    /\ req = [r \in Invocations |-> NoRequest]
    /\ route = [r \in Invocations |-> NoRoute]
    /\ resp = [r \in Invocations |-> NoResponse]
    /\ ret = [r \in Invocations |-> Nil]
    /\ envErr = [r \in Invocations |-> <<>>]
    /\ acc = [r \in Invocations |-> NoAccess]
    /\ pc = [r \in Invocations |-> IF r = 1 THEN "components" ELSE "idle"]
    /\ \E b \in Builders, cs \in CompLists :
          loc = [r \in Invocations |->
                    IF r = 1
                    THEN [NoLocals EXCEPT !.b = b, !.hasB = TRUE, !.comps = cs, !.i = 1]
                    ELSE NoLocals]

\* The components' Render calls alone.
NextComponents == \E r \in Invocations : RenderComponents(r)

SpecComponents == InitComponents /\ [][NextComponents]_vars

\* ------------------------------------------------------- reading markup

\* The value of attribute `name` of a token, "" when it has none.
Attr(tok, name) ==
    IF \E j \in 1..Len(tok.attrs) : j % 2 = 1 /\ tok.attrs[j] = name
    THEN tok.attrs[(CHOOSE j \in 1..Len(tok.attrs) : j % 2 = 1 /\ tok.attrs[j] = name) + 1]
    ELSE ""

\* Where the elements `tag` of a markup open.
Opens(s, tag) == {i \in 1..Len(s) : s[i].k \in {"open", "void"} /\ s[i].tag = tag}

\* Where a markup has the text t.
Texts(s, t) == {i \in 1..Len(s) : s[i].k = "text" /\ s[i].s = t}

IsText(tok, t) == tok.k = "text" /\ tok.s = t

IsOpen(tok, tag) == tok.k = "open" /\ tok.tag = tag

IsVoid(tok, tag) == tok.k = "void" /\ tok.tag = tag

IsClose(tok, tag) == tok.k = "close" /\ tok.tag = tag

\* The one element of a set of one.
The(S) == CHOOSE x \in S : TRUE

\* Invocation r has served a page: Render has returned and the response is written.
PageServed(r) ==
    /\ pc[r] = "done"
    /\ route[r].handler \in {"home", "contactPage"}

\* ------------------------------------------------------------------ claims

\* Where the parts of a rendered page start: the banner's header, the body
\* content (a form, or the hero with its h2), the footer's copyright
\* paragraph, and the page's h1.
BannerAt(s) == Opens(s, "header")

ContentAt(s, kind) == IF kind = "Home" THEN Opens(s, "h2") ELSE Opens(s, "form")

FooterAt(s) == Texts(s, "Copyright &copy; 2025")

HeadingAt(s) == {i \in Opens(s, "h1") : Attr(s[i], "style") = HeadingStyle[2]}

\* C1: in the HTML a page handler answers with, for Home and ContactPage alike,
\* the body element holds, in this order, the banner (first in the body), the
\* body content (the hero for Home, the form for ContactPage), the footer and
\* the h1 heading (last in the body, after the footer), each exactly once.
C1_RenderOrder ==
    \A r \in Invocations :
        PageServed(r) =>
            LET s == resp[r].body
                k == loc[r].kind
            IN  /\ Len(s) > 8
                /\ IsOpen(s[1], "body")
                /\ IsClose(s[Len(s)], "body")
                /\ BannerAt(s) = {2}
                /\ Cardinality(ContentAt(s, k)) = 1
                /\ Cardinality(FooterAt(s)) = 1
                /\ HeadingAt(s) = {Len(s) - 3}
                /\ 2 < The(ContentAt(s, k))
                /\ The(ContentAt(s, k)) < The(FooterAt(s))
                /\ The(FooterAt(s)) < Len(s) - 3
                /\ (k = "Home") = (route[r].handler = "home")
                /\ (k = "Home") => Opens(s, "form") = {}
                /\ (k = "ContactPage") => Opens(s, "h2") = {}

\* C1's case: a rendered home page and a rendered contact page, both served.
C1_Witness ==
    \E r1, r2 \in Invocations :
        /\ PageServed(r1) /\ loc[r1].kind = "Home"
        /\ PageServed(r2) /\ loc[r2].kind = "ContactPage"
        /\ Len(resp[r1].body) > 8
        /\ Len(resp[r2].body) > 8

\* Invocation r's Render call has returned.
Rendered(r) == loc[r].kind \in {"Home", "ContactPage"} /\ loc[r].out # <<>>

\* C2 (same string): any two Render calls of the same page value, however
\* they and the renders of other pages were interleaved, returned the same
\* string.
C2_SameString ==
    \A r1, r2 \in Invocations :
        (/\ Rendered(r1) /\ Rendered(r2)
         /\ loc[r1].kind = loc[r2].kind
         /\ loc[r1].recv = loc[r2].recv) => loc[r1].out = loc[r2].out

\* C2 (no side effect): no step of any handler changes HomePage or Contact, so
\* every Render call of an instance has the same receiver.
C2_PagesKept ==
    /\ HomePage' = HomePage
    /\ Contact' = Contact
    /\ \A r \in Invocations :
          Rendered(r)' => loc'[r].recv = IF loc'[r].kind = "Home" THEN HomePage' ELSE Contact'

\* C2: rendering a page is idempotent and free of side effects.
C2_RenderIdempotent == [](C2_SameString) /\ [][C2_PagesKept]_vars

\* C2's case: two Render calls of the same page have returned, one of them
\* after the other had been served.
C2_Witness ==
    \E r1, r2 \in Invocations :
        /\ r1 # r2
        /\ pc[r1] = "done" /\ Rendered(r1)
        /\ pc[r2] = "writeHTML" /\ Rendered(r2)
        /\ loc[r1].kind = loc[r2].kind

\* Invocations r1 and r2 are both running handlers.
Concurrent(r1, r2) == r1 # r2 /\ pc[r1] # "idle" /\ pc[r2] # "idle"

\* C3: of the objects two concurrent handler invocations share, none is
\* written: what one invocation has written, no other running invocation has
\* read or written.
C3_NoSharedWrites ==
    \A r1, r2 \in Invocations :
        Concurrent(r1, r2) =>
            acc[r1].writes \cap (acc[r2].reads \cup acc[r2].writes) = {}

\* C4: whenever the /upload handler returns nil, uploaded_file.txt exists and
\* holds exactly the bytes of the file part of that handler's request.
C4_UploadPersisted ==
    [][\A r \in Invocations :
          (/\ route[r].handler = "upload"
           /\ pc[r] # "done"
           /\ pc'[r] = "done"
           /\ ret'[r] = Nil)
          => (disk'.exists /\ disk'.data = req[r].file)]_vars

\* Invocation r has answered a POST to `handler`.
Answered(r, handler) == pc[r] = "done" /\ route[r].handler = handler

\* The text of a plain-text body, chunk by chunk.
BodyText(s) == [i \in 1..Len(s) |-> s[i].s]

\* The value posted for a field, "" when the field was not posted.
Posted(q, field) == IF field \in DOMAIN q.form THEN q.form[field] ELSE ""

C6_ContactEcho ==
    \A r \in Invocations :
        Answered(r, "postContact") =>
            LET s == resp[r].body
            IN  /\ resp[r].written
                /\ Len(s) = 14
                /\ IsOpen(s[1], "body")
                /\ IsOpen(s[2], "h1") /\ IsText(s[3], "Welcome") /\ IsClose(s[4], "h1")
                /\ IsVoid(s[5], "hr")
                /\ IsOpen(s[6], "p")
                /\ BodyText(SubSeq(s, 7, 12)) =
                      << "Posted - name: ", Posted(req[r], "name"),
                         ", email: ", Posted(req[r], "email"),
                         ", message: ", Posted(req[r], "message") >>
                /\ \A i \in 7..12 : s[i].k = "text"
                /\ IsClose(s[13], "p")
                /\ IsClose(s[14], "body")

\* C6's case: name, email and a message with markup in it were posted and
\* the answer is written.
C6_Witness ==
    \E r \in Invocations :
        /\ Answered(r, "postContact")
        /\ req[r].form = [name |-> "Jane", email |-> "j@x.com", message |-> "<b>Hi</b>"]
        /\ Texts(resp[r].body, "<b>Hi</b>") = {12}

\* The page instance a page handler renders.
Instance(r) == IF route[r].handler = "home" THEN HomePage ELSE Contact

\* C7: in a rendered page the h1 inside the header has the instance's Title as
\* its text and the separate h1 of the page has its Heading, never the other
\* way round; for the home page instance of the program the two texts are
\* "My Website" and "Home Page".
C7_TitleAndHeading ==
    \A r \in Invocations :
        PageServed(r) =>
            LET s == resp[r].body
                h == Len(s) - 3
            IN  /\ h > 6
                /\ IsOpen(s[2], "header")
                /\ IsOpen(s[3], "h1")
                /\ IsText(s[4], Instance(r).Page.Title)
                /\ IsClose(s[5], "h1")
                /\ IsClose(s[6], "header")
                /\ IsOpen(s[h], "h1")
                /\ IsText(s[h + 1], Instance(r).Heading)
                /\ IsClose(s[h + 2], "h1")
                /\ Opens(s, "h1") = {3, h}
                /\ (route[r].handler = "home" /\ HomePage = HomePageValue) =>
                      (IsText(s[4], "My Website") /\ IsText(s[h + 1], "Home Page"))

\* C7's case: the home page instance of the program, rendered and served.
C7_Witness ==
    \E r \in Invocations :
        /\ PageServed(r)
        /\ route[r].handler = "home"
        /\ HomePage = HomePageValue
        /\ Texts(resp[r].body, "My Website") # {}
        /\ Texts(resp[r].body, "Home Page") # {}

\* The form controls of a markup: its input and textarea elements.
Controls(s) == Opens(s, "input") \cup Opens(s, "textarea")

\* C8: the rendered contact page holds exactly one form, with action
\* "/contact" and method "POST", whose children are, in order, an input named
\* name, an input named email, a textarea named message and a submit button;
\* the names of its controls are the field names the POST /contact handler
\* reads.
C8_ContactFormFields ==
    \A r \in Invocations :
        (PageServed(r) /\ route[r].handler = "contactPage") =>
            LET s == resp[r].body
                f == The(Opens(s, "form"))
            IN  /\ Cardinality(Opens(s, "form")) = 1
                /\ Attr(s[f], "action") = "/contact"
                /\ Attr(s[f], "method") = "POST"
                /\ IsVoid(s[f + 1], "input") /\ Attr(s[f + 1], "name") = "name"
                /\ IsVoid(s[f + 2], "input") /\ Attr(s[f + 2], "name") = "email"
                /\ IsOpen(s[f + 3], "textarea") /\ Attr(s[f + 3], "name") = "message"
                /\ IsClose(s[f + 4], "textarea")
                /\ IsOpen(s[f + 5], "button") /\ Attr(s[f + 5], "type") = "submit"
                /\ s[f + 6].k = "text"
                /\ IsClose(s[f + 7], "button")
                /\ IsClose(s[f + 8], "form")
                /\ Controls(s) = {f + 1, f + 2, f + 3}
                /\ {Attr(s[i], "name") : i \in Controls(s)} = DOMAIN ContactRead(req[r])

\* C8's case: the contact page, rendered and served, with its form.
C8_Witness ==
    \E r \in Invocations :
        /\ PageServed(r)
        /\ route[r].handler = "contactPage"
        /\ Opens(resp[r].body, "form") # {}

\* C9: when the /upload handler has returned, what it returned is the error
\* value its first failing call gave it (of GetFormFile, ReadAll, WriteFile),
\* as it was; no call follows a failed one; and it returned nil only after the
\* file was obtained, read in full and written.
C9_UploadErrors ==
    \A r \in Invocations :
        Answered(r, "upload") =>
            /\ Len(envErr[r]) <= 1
            /\ ret[r] = IF envErr[r] = <<>> THEN Nil ELSE envErr[r][1]
            /\ ret[r] = loc[r].err
            /\ ret[r] \in {Nil} \cup GetFormFileErrors \cup ReadErrors
                            \cup OpenErrors \cup WriteErrors
            /\ ret[r] = Nil =>
                  /\ req[r].hasFile
                  /\ loc[r].file # "none"
                  /\ loc[r].data = req[r].file
                  /\ loc[r].fd = "closed"
            /\ ret[r] \in GetFormFileErrors => loc[r].file = "none"
            /\ ret[r] \in ReadErrors => loc[r].fd = "none"
            /\ ret[r] \in OpenErrors => loc[r].fd = "none" /\ loc[r].data = req[r].file

\* C9's case: the write failed part of the way and the handler has returned.
C9_Witness ==
    \E r \in Invocations :
        /\ Answered(r, "upload")
        /\ ret[r] \in WriteErrors
        /\ envErr[r] = <<ret[r]>>
        /\ Len(req[r].file) = MaxLen
        /\ Len(disk.data) = 1

\* C10: the components a Render call gets from its Page are a Banner whose
\* Title is the page's Title and a Footer with no data, and the page is what
\* it was before the calls.
C10_BannerFooter ==
    \A r \in Invocations :
        loc[r].comps # <<>> =>
            /\ Len(loc[r].comps) = 3
            /\ loc[r].comps[1] = [comp |-> "Banner", Title |-> loc[r].recv.Page.Title]
            /\ DOMAIN loc[r].comps[3] = {"comp"}
            /\ loc[r].comps[3].comp = "Footer"
            /\ loc[r].recv = Instance(r)
            /\ loc[r].recv \in PageValues

\* C10's case: Banner() and Footer() were called on a page titled
\* "Contact Us" and the components are being rendered.
C10_Witness ==
    \E r \in Invocations :
        /\ pc[r] = "components"
        /\ loc[r].recv.Page.Title = "Contact Us"
        /\ loc[r].comps[1].Title = "Contact Us"
        /\ loc[r].comps[3] = [comp |-> "Footer"]

\* ------------------------------------------------------------------- C11

\* C11: the static page instances are immutable after process start: after
\* any sequence of requests to any registered route HomePage still has Title
\* "My Website" and Heading "Home Page", and Contact still has Title
\* "Contact Us" and Heading "Get in Touch".
C11_PagesImmutable ==
    /\ HomePage.Page.Title = "My Website"
    /\ HomePage.Heading = "Home Page"
    /\ Contact.Page.Title = "Contact Us"
    /\ Contact.Heading = "Get in Touch"

\* An upload has been stored, and a page has just been rendered and served.
C11_Witness ==
    /\ disk.exists
    /\ \E r \in Invocations :
          /\ pc[r] = "done"
          /\ route[r].handler \in {"home", "contactPage"}
          /\ resp[r].written
    /\ HomePage = HomePageValue
    /\ Contact = ContactValue

\* ------------------------------------------------------------------- C12

HtmlType == "text/html; charset=utf-8"

IsGet(r, path) == pc[r] # "idle" /\ req[r].method = "GET" /\ req[r].path = path

\* What a page route has to have done by the statement it is at: the
\* Content-Type is set from the handler's first statement on, so before the
\* body is written, and once the body is written it is `own` and not `other`.
ServedAs(r, own, other) ==
    /\ pc[r] # "setHeader" => resp[r].contentType = HtmlType
    /\ pc[r] = "done" => resp[r].written
    /\ resp[r].written =>
          /\ resp[r].contentType = HtmlType
          /\ resp[r].body = own
          /\ resp[r].body # other
    /\ ~resp[r].written => resp[r].body = <<>>

\* C12: every GET / is answered with the rendering of the home page and every
\* GET /contact with the rendering of the contact page, each with the
\* Content-Type text/html set before the body is written; neither route
\* serves the other's page.
C12_PageRoutes ==
    \A r \in Invocations :
        /\ IsGet(r, <<>>) =>
              ServedAs(r, HomeRender(HomePage), ContactPageRender(Contact))
        /\ IsGet(r, <<"contact">>) =>
              ServedAs(r, ContactPageRender(Contact), HomeRender(HomePage))

\* A GET / and a GET /contact have both been answered, at the same time.
C12_Witness ==
    \E r1, r2 \in Invocations :
        /\ IsGet(r1, <<>>) /\ pc[r1] = "done" /\ resp[r1].written
        /\ IsGet(r2, <<"contact">>) /\ pc[r2] = "done" /\ resp[r2].written
        /\ resp[r1].body # resp[r2].body

\* ------------------------------------------------------------------- C13

\* A step in which invocation r has called the Render of a component.
ComponentRendered(r) == loc'[r].i = loc[r].i + 1

\* The markup of a component when rendered into an empty builder.
Fragment(comp) == ComponentRender(comp, <<>>)

\* C13: a component's Render only appends to the builder it is passed: what
\* the builder held before the call is still there, unchanged and in front of
\* the appended fragment; the call touches no other state and has no error
\* outcome.
C13_AppendOnly ==
    [][\A r \in Invocations :
         ComponentRendered(r) =>
            LET before == loc[r].b
                after  == loc'[r].b
                comp   == loc[r].comps[loc[r].i]
            IN  /\ Len(after) > Len(before)
                /\ SubSeq(after, 1, Len(before)) = before
                /\ SubSeq(after, Len(before) + 1, Len(after)) = Fragment(comp)
                /\ loc'[r] = [loc[r] EXCEPT !.b = after, !.i = loc[r].i + 1]
                /\ pc'[r] \in {"components", "heading"}
                /\ ret'[r] = Nil
                /\ UNCHANGED <<HomePage, Contact, disk, req, route, resp, ret, envErr, acc>>
      ]_vars

\* Two components have been rendered into a builder that already held
\* markup: the earlier markup is in front, the footer's fragment at the end.
C13_Witness ==
    \E r \in Invocations :
        /\ loc[r].i = 3
        /\ loc[r].comps[2].comp = "Footer"
        /\ loc[r].b[1] = Text("x")
        /\ loc[r].b[2] = Open("div", <<>>)
        /\ loc[r].b[Len(loc[r].b)] = Close("div")

\* ------------------------------------------------------------------- C14

\* The chunks of a text that are not empty: two texts are the same string
\* when these agree.
NonEmpty(s) == SelectSeq(s, LAMBDA c : c # "")

\* C14: as the example outputs of main.go show, a POST to /post-form-data/123
\* with only dept=support returns `Posted - form_id: 123, dept: support`: a
\* form field that was not posted contributes no `name:` segment.
C14_NoNameSegment ==
    \A r \in Invocations :
        /\ Answered(r, "postFormData")
        /\ "name" \notin DOMAIN req[r].form
        => /\ \A i \in 1..Len(resp[r].body) : resp[r].body[i].s # ", name: "
           /\ (req[r].path = <<"post-form-data", "123">> /\ req[r].form = [dept |-> "support"])
                => NonEmpty(BodyText(resp[r].body))
                     = <<"Posted - form_id: ", "123", ", dept: ", "support">>

\* ------------------------------------------------------------------- C15

\* An invocation of the upload handler that failed to obtain or to read the
\* form file.
ReadFailed(r) ==
    /\ Answered(r, "upload")
    /\ ret[r] \in GetFormFileErrors \cup ReadErrors

\* The failed invocation has not opened or written uploaded_file.txt.
C15_FailedLeavesFile ==
    \A r \in Invocations :
        ReadFailed(r) =>
            /\ "uploaded_file.txt" \notin acc[r].writes
            /\ loc[r].fd = "none"

\* A step that creates or changes uploaded_file.txt is a step of os.WriteFile
\* in an invocation whose read has completed without error, with the whole
\* payload in memory.
C15_WriteAfterRead ==
    disk' # disk =>
        \E r \in Invocations :
            /\ pc[r] \in {"openOut", "writeOut"}
            /\ pc'[r] # pc[r]
            /\ envErr[r] = <<>>
            /\ loc[r].err = Nil
            /\ loc[r].data = req[r].file

\* C15: the upload handler reads the whole payload into memory before any
\* write to uploaded_file.txt begins: the write step happens only after the
\* read step has completed successfully, so when obtaining or reading the
\* form file fails the file is neither created nor modified.
C15_ReadBeforeWrite == [](C15_FailedLeavesFile) /\ [][C15_WriteAfterRead]_vars

\* An upload was stored, and a later upload has failed while its file was
\* read: the stored bytes are those of the earlier upload.
C15_Witness ==
    \E r \in Invocations :
        /\ ReadFailed(r)
        /\ ret[r] \in ReadErrors
        /\ Len(req[r].file) = MaxLen
        /\ disk.exists
        /\ disk.data # <<>>
        /\ disk.data # req[r].file

\* ------------------------------------------------------------------- C16

\* An invocation of the upload handler that has returned nil.
Stored(r) == Answered(r, "upload") /\ ret[r] = Nil

\* C16: uploads overwrite, they do not append: with the requests handled one
\* after another, after a successful POST /upload uploaded_file.txt holds
\* exactly the content of that upload and nothing of earlier uploads, also
\* when it is shorter than what the file held before.
C16_Overwrites ==
    \A r \in Invocations :
        Stored(r) =>
            /\ disk.exists
            /\ disk.data = req[r].file
            /\ Len(disk.data) = Len(loc[r].data)

\* A one-byte upload has been stored over a longer earlier upload that
\* started with another byte.
C16_Witness ==
    \E r \in Invocations :
        /\ Stored(r)
        /\ Len(req[r].file) = 1
        /\ Len(loc[r].was) > 1
        /\ loc[r].was[1] # req[r].file[1]
        /\ disk.data = req[r].file

\* ------------------------------------------------------------------- C17

\* C17: when two POST /upload requests are handled concurrently and both have
\* returned, uploaded_file.txt holds exactly the complete payload of one of
\* the two, never a mixture of bytes of both and never a truncated payload.
C17_OneWholePayload ==
    \A r1, r2 \in Invocations :
        /\ r1 # r2
        /\ Stored(r1)
        /\ Stored(r2)
        /\ \A r \in Invocations \ {r1, r2} : "uploaded_file.txt" \notin acc[r].writes
        => disk.data \in {req[r1].file, req[r2].file}

\* ------------------------------------------------------------------- C18

\* Invocation r is in a Render call, or has returned from one.
InRender(r) == loc[r].kind \in {"Home", "ContactPage"}

\* The string the Render call of invocation r returns when it runs alone.
Alone(r) ==
    IF loc[r].kind = "Home" THEN HomeRender(loc[r].recv)
    ELSE ContactPageRender(loc[r].recv)

IsPrefix(s, t) == Len(s) <= Len(t) /\ SubSeq(t, 1, Len(s)) = s

\* C18: each page Render call builds into its own newly created builder: the
\* string a Render call returns when it runs concurrently with other Render
\* calls, of the same or of another page, is the string the same call returns
\* when run alone, and no markup of one request's page appears in another
\* request's response.
C18_RenderIsolated ==
    \A r \in Invocations :
        InRender(r) =>
            /\ loc[r].hasB => IsPrefix(loc[r].b, Alone(r))
            /\ Rendered(r) => loc[r].out = Alone(r)
            /\ resp[r].written => resp[r].body = Alone(r)

\* A Render call of the contact page has returned while a Render call of
\* the home page, started before it returned, is between two components.
C18_Witness ==
    \E r1, r2 \in Invocations :
        /\ loc[r1].kind = "Home"
        /\ pc[r1] = "components"
        /\ loc[r1].i = 2
        /\ loc[r2].kind = "ContactPage"
        /\ pc[r2] = "writeHTML"
        /\ loc[r2].out = ContactPageRender(loc[r2].recv)
        /\ loc[r1].recv.Page.Title # loc[r2].recv.Page.Title

\* ------------------------------------------------------------------- C19

\* Invocation r serves a request for which a route is registered.
Routed(r) == pc[r] # "idle" /\ route[r] # NoRoute

\* The statements of each route's handler.
Statements(handler) ==
    CASE handler \in {"home", "contactPage"} ->
            {"setHeader", "newBuilder", "body", "components", "heading", "return",
             "writeHTML"}
      [] handler = "postFormData" -> {"postFormData"}
      [] handler = "postContact"  -> {"postContact", "writeHTML"}
      [] handler = "upload"       -> {"getFormFile", "readAll", "openOut", "writeOut"}

\* The handler of invocation r has run to its return.
Ran(r) ==
    IF route[r].handler = "upload"
    THEN loc[r].file = "closed" \/ ret[r] \in GetFormFileErrors
    ELSE resp[r].written

\* C19: no middleware of the program stops the request chain: the auth check
\* that answers 401 for paths not containing "roh" is never registered and
\* every registered middleware calls ctx.Next(), so every request to a
\* registered route reaches its route handler, whatever its path.
C19_ChainReachesHandler ==
    \A r \in Invocations :
        Routed(r) =>
            /\ pc[r] # "stopped"
            /\ resp[r].status # 401
            /\ pc[r] \in Statements(route[r].handler) \cup {"done"}
            /\ pc[r] = "done" => Ran(r)

\* A request whose path does not contain "roh" has been answered by its
\* handler, after an upload, whose path does not contain it either, was stored.
C19_Witness ==
    /\ disk.exists
    /\ \E r \in Invocations :
          /\ Answered(r, "postFormData")
          /\ req[r].path = <<"post-form-data", "42">>
          /\ ~ContainsRoh(req[r].path)
          /\ resp[r].written
          /\ resp[r].status = 200

\* ------------------------------------------------------------------- C20

\* C20: in the upload handler the uploaded file's handle is closed exactly
\* once on every path that follows a successful GetFormFile (read error, write
\* error, success), not before the handler returns, and Close is never
\* called when GetFormFile failed.
C20_ClosedOnce ==
    \A r \in Invocations :
        (pc[r] # "idle" /\ route[r].handler = "upload") =>
            /\ pc[r] = "getFormFile" => loc[r].closes = 0 /\ loc[r].file = "none"
            /\ pc[r] \in {"readAll", "openOut", "writeOut"} =>
                  loc[r].closes = 0 /\ loc[r].file = "open"
            /\ pc[r] = "done" =>
                  IF ret[r] \in GetFormFileErrors
                  THEN loc[r].closes = 0 /\ loc[r].file = "none"
                  ELSE loc[r].closes = 1 /\ loc[r].file = "closed"

\* The handler has returned a write error after part of the payload was
\* written: the handle was closed once.
C20_Witness ==
    \E r \in Invocations :
        /\ Answered(r, "upload")
        /\ ret[r] \in WriteErrors
        /\ loc[r].fd = "closed"
        /\ loc[r].closes = 1
        /\ loc[r].file = "closed"

====
